---- MODULE Spec2Model ----
(***************************************************************************)
(* The Edgeberry Python SDK (examples/python-sdk): the two D-Bus client    *)
(* classes Edgeberry and EdgeberryCloudConnect, and the example main().    *)
(*                                                                         *)
(* A Python string is a sequence of one-character strings, so that the     *)
(* JSON text json.dumps produces is built, and read back, character by     *)
(* character.  An operation (a constructor or a method call) is one        *)
(* action: the SDK is single-threaded and every call is synchronous.       *)
(***************************************************************************)
EXTENDS Integers, Sequences, FiniteSets, TLC

VARIABLES
    text,   \* the string the application passes in its calls
    inst,   \* per class: the instance's attributes (bus, service handle)
    last,   \* the operation that ran last, with what it did and returned
    prev,   \* whether the last call repeated the operation before it
    pc,     \* position in example.py's main(); "app" outside main()
    trace   \* the operations main() has performed, in order

vars == <<text, inst, last, prev, pc, trace>>

-----------------------------------------------------------------------------
(* Bounds *)

\* Longest string the application draws for its arguments.
MaxLen == 2

-----------------------------------------------------------------------------
(* Characters and strings *)

\* The characters the model knows outside U+0020..U+007E, with their code
\* points; every other character of the model is printable ASCII.
CodePoints ==
    { <<"\t", 9>>, <<"\n", 10>>, <<"\r", 13>>, <<"é", 233>>, <<"€", 8364>> }

\* [^\ -~]: the characters json.dumps does not copy as they are.
NonPrintable == { p[1] : p \in CodePoints }

Ord(c) == (CHOOSE p \in CodePoints : p[1] = c)[2]

HasChr(n) == \E p \in CodePoints : p[2] = n

Chr(n) == (CHOOSE p \in CodePoints : p[2] = n)[1]

\* The characters the application's strings are drawn from: a plain one,
\* the two json.dumps escapes with a backslash, and a non-ASCII one.
Alphabet == { "a", "\"", "\\", "é" }

Strings == UNION { [1..n -> Alphabet] : n \in 0..MaxLen }

HexDigits ==
    << "0", "1", "2", "3", "4", "5", "6", "7",
       "8", "9", "a", "b", "c", "d", "e", "f" >>

\* '\\u{0:04x}'.format(n)
Hex4(n) ==
    << HexDigits[((n \div 4096) % 16) + 1], HexDigits[((n \div 256) % 16) + 1],
       HexDigits[((n \div 16) % 16) + 1],   HexDigits[(n % 16) + 1] >>

RECURSIVE Flatten(_)
Flatten(ss) == IF ss = <<>> THEN <<>> ELSE Head(ss) \o Flatten(Tail(ss))

\* sep.join(parts)
RECURSIVE Join(_, _)
Join(sep, parts) ==
    IF parts = <<>> THEN <<>>
    ELSE IF Len(parts) = 1 THEN parts[1]
    ELSE parts[1] \o sep \o Join(sep, Tail(parts))

-----------------------------------------------------------------------------
(* json.dumps, as the SDK calls it: default separators, ensure_ascii *)

\* json.encoder's replacement of one character of a string.
Escape(c) ==
    CASE c = "\\" -> << "\\", "\\" >>
      [] c = "\"" -> << "\\", "\"" >>
      [] c = "\n" -> << "\\", "n" >>
      [] c = "\r" -> << "\\", "r" >>
      [] c = "\t" -> << "\\", "t" >>
      [] c \in NonPrintable -> << "\\", "u" >> \o Hex4(Ord(c))
      [] OTHER -> << c >>

\* A string literal without its escapes: what a writer that only adds the
\* quotes produces.
EncodeString_raw(s) == << "\"" >> \o s \o << "\"" >>

\* py_encode_basestring_ascii: the string between quotes, escaped.
EncodeString(s) ==
    << "\"" >> \o Flatten([i \in 1..Len(s) |-> Escape(s[i])]) \o << "\"" >>

\* One "key": value member of an object.
Member(kv) == EncodeString(kv[1]) \o << ":", " " >> \o EncodeString(kv[2])

\* json.dumps(d, separators=(",", ":")): the compact form, which the SDK
\* does not ask for.
dumps_compact(d) ==
    << "{" >>
    \o Join(<< "," >>,
            [i \in 1..Len(d) |-> EncodeString(d[i][1]) \o << ":" >>
                                  \o EncodeString(d[i][2])])
    \o << "}" >>

\* json.dumps(d) of a dict of strings d, given as its items in insertion
\* order: members separated by ", ", key and value by ": ".
dumps(d) ==
    << "{" >> \o Join(<< ",", " " >>, [i \in 1..Len(d) |-> Member(d[i])])
    \o << "}" >>

-----------------------------------------------------------------------------
(* The dictionaries' keys and the example's arguments, as strings *)

KeyName ==
    << "n", "a", "m", "e" >>

KeyVersion ==
    << "v", "e", "r", "s", "i", "o", "n" >>

KeyDescription ==
    << "d", "e", "s", "c", "r", "i", "p", "t", "i", "o", "n" >>

KeyLevel ==
    << "l", "e", "v", "e", "l" >>

KeyMessage ==
    << "m", "e", "s", "s", "a", "g", "e" >>

\* example.py's literals.
ExampleName ==
    << "e", "x", "a", "m", "p", "l", "e" >>

ExampleVersion ==
    << "v", "3", ".", "2", ".", "1" >>

ExampleDescription ==
    << "E", "d", "g", "e", "b", "e", "r", "r", "y", " ", "a", "p", "p",
       "l", "i", "c", "a", "t", "i", "o", "n", " ", "e", "x", "a", "m",
       "p", "l", "e" >>

ExampleLevel ==
    << "o", "k" >>

ExampleStatusMessage ==
    << "b", "l", "u", "b" >>

ExampleCloudMessage ==
    << "t", "e", "s", "t", " ", "m", "e", "s", "s", "a", "g", "e" >>


-----------------------------------------------------------------------------
(* A JSON reader, for stating what a text encodes.  It reads an object   *)
(* whose values are strings and yields its members in order, or Invalid. *)

Invalid == [ok |-> FALSE]

Whitespace == { " ", "\t", "\n", "\r" }

RECURSIVE SkipWs(_, _)
SkipWs(t, i) ==
    IF i <= Len(t) /\ t[i] \in Whitespace THEN SkipWs(t, i + 1) ELSE i

HexValue(c) == CHOOSE k \in 0..15 : HexDigits[k + 1] = c

IsHex(c) == \E k \in 1..16 : HexDigits[k] = c

\* The characters of a string literal from position i (after the opening
\* quote) to the closing quote: [ok, val, next].
RECURSIVE ReadChars(_, _, _)
ReadChars(t, i, acc) ==
    IF i > Len(t) THEN Invalid
    ELSE IF t[i] = "\"" THEN [ok |-> TRUE, val |-> acc, next |-> i + 1]
    ELSE IF t[i] \in { "\t", "\n", "\r" } THEN Invalid
    ELSE IF t[i] /= "\\" THEN ReadChars(t, i + 1, Append(acc, t[i]))
    ELSE IF i + 1 > Len(t) THEN Invalid
    ELSE IF t[i + 1] \in { "\"", "\\", "/" }
         THEN ReadChars(t, i + 2, Append(acc, t[i + 1]))
    ELSE IF t[i + 1] = "n" THEN ReadChars(t, i + 2, Append(acc, "\n"))
    ELSE IF t[i + 1] = "r" THEN ReadChars(t, i + 2, Append(acc, "\r"))
    ELSE IF t[i + 1] = "t" THEN ReadChars(t, i + 2, Append(acc, "\t"))
    ELSE IF t[i + 1] = "u" /\ i + 5 <= Len(t)
            /\ \A k \in 2..5 : IsHex(t[i + k])
         THEN LET n == 4096 * HexValue(t[i + 2]) + 256 * HexValue(t[i + 3])
                       + 16 * HexValue(t[i + 4]) + HexValue(t[i + 5])
              IN  IF HasChr(n) THEN ReadChars(t, i + 6, Append(acc, Chr(n)))
                  ELSE Invalid
    ELSE Invalid

ReadString(t, i) ==
    IF i <= Len(t) /\ t[i] = "\"" THEN ReadChars(t, i + 1, <<>>) ELSE Invalid

\* The members from position i (at a key) to the closing brace.
RECURSIVE ReadMembers(_, _, _)
ReadMembers(t, i, acc) ==
    LET k == ReadString(t, SkipWs(t, i)) IN
    IF ~k.ok THEN Invalid
    ELSE LET c == SkipWs(t, k.next) IN
    IF ~(c <= Len(t) /\ t[c] = ":") THEN Invalid
    ELSE LET v == ReadString(t, SkipWs(t, c + 1)) IN
    IF ~v.ok THEN Invalid
    ELSE LET e   == SkipWs(t, v.next)
             got == Append(acc, << k.val, v.val >>)
         IN  IF e > Len(t) THEN Invalid
             ELSE IF t[e] = "," THEN ReadMembers(t, e + 1, got)
             ELSE IF t[e] = "}" /\ SkipWs(t, e + 1) = Len(t) + 1
                  THEN [ok |-> TRUE, members |-> got]
             ELSE Invalid

\* json.loads(t), for an object of strings.
loads(t) ==
    LET b == SkipWs(t, 1) IN
    IF ~(b <= Len(t) /\ t[b] = "{") THEN Invalid
    ELSE LET m == SkipWs(t, b + 1) IN
         IF m <= Len(t) /\ t[m] = "}"
         THEN IF SkipWs(t, m + 1) = Len(t) + 1
              THEN [ok |-> TRUE, members |-> <<>>] ELSE Invalid
         ELSE ReadMembers(t, m, <<>>)

\* t encodes the object with exactly the keys of d, each once, and d's
\* values.
EncodesObject(t, d) ==
    LET r == loads(t) IN
    /\ r.ok
    /\ Len(r.members) = Len(d)
    /\ { r.members[i] : i \in 1..Len(r.members) } = { d[i] : i \in 1..Len(d) }
    /\ Cardinality({ r.members[i][1] : i \in 1..Len(r.members) }) = Len(d)

-----------------------------------------------------------------------------
(* The bus, the remote services and Python's values *)

None == "None"

\* An attribute the instance does not have.
Absent == "<absent>"

Classes == { "Edgeberry", "EdgeberryCloudConnect" }

Methods == { "set_application_info", "set_status", "send_message" }

EDGEBERRY_SERVICE(cls) ==
    IF cls = "Edgeberry" THEN "io.edgeberry.Core"
    ELSE "io.edgeberry.CloudConnect"

Return(v) == [kind |-> "return", value |-> v]

Raise(e) == [kind |-> "raise", value |-> e]

\* What a remote operation may return: opaque to the SDK.
RetVals == { None, "ok" }

\* How a remote invocation may end: it returns a value, or pydbus raises.
Remote == { Return(v) : v \in RetVals } \cup { Raise("GLib.Error") }

NoRemote == [kind |-> "none", value |-> None]

NoReach == [bus |-> FALSE, service |-> FALSE, asked |-> FALSE]

NoInstance == [constructed |-> FALSE, bus |-> Absent, service |-> Absent]

\* except Exception as e: print(...); return None
Caught(r) ==
    IF r.outcome.kind = "raise" THEN [r EXCEPT !.outcome = Return(None)]
    ELSE r

-----------------------------------------------------------------------------
(* The constructors *)

\* The try block of __init__: SystemBus(), then bus.get(EDGEBERRY_SERVICE).
\* Each attribute is assigned only if its right-hand side did not raise.
Connect(cls, busUp, svcUp) ==
    IF ~busUp
    THEN [self    |-> [constructed |-> TRUE, bus |-> Absent,
                       service |-> Absent],
          outcome |-> Raise("GLib.Error")]
    ELSE IF ~svcUp
    THEN [self    |-> [constructed |-> TRUE, bus |-> "SystemBus",
                       service |-> Absent],
          outcome |-> Raise("GLib.Error")]
    ELSE [self    |-> [constructed |-> TRUE, bus |-> "SystemBus",
                       service |-> EDGEBERRY_SERVICE(cls)],
          outcome |-> Return(None)]

\* A constructor that lets the connection error reach its caller.
__init__raising(cls, busUp, svcUp) ==
    LET r == Connect(cls, busUp, svcUp) IN
    IF r.outcome.kind = "raise"
    THEN [self |-> NoInstance, outcome |-> Raise("ConnectionError")]
    ELSE r

\* A constructor that keeps a handle to a service it could not reach.
__init__stale(cls, busUp, svcUp) ==
    [self    |-> [constructed |-> TRUE, bus |-> "SystemBus",
                  service |-> EDGEBERRY_SERVICE(cls)],
     outcome |-> Return(None)]

\* Edgeberry.__init__ and EdgeberryCloudConnect.__init__.
__init__(cls, busUp, svcUp) == Caught(Connect(cls, busUp, svcUp))

-----------------------------------------------------------------------------
(* The methods *)

\* A call that invokes again when the invocation raised.
Invoke_retry(self, op, arg, remote) ==
    LET invocation == [service |-> self.service, op |-> op, args |-> << arg >>]
    IN  IF self.service = Absent
        THEN [self |-> self, invocations |-> <<>>,
              outcome |-> Raise("AttributeError")]
        ELSE [self |-> self,
              invocations |-> IF remote.kind = "raise"
                              THEN << invocation, invocation >>
                              ELSE << invocation >>,
              outcome |-> remote]

\* A call that gives up its service handle when the invocation raised.
Invoke_drop(self, op, arg, remote) ==
    IF self.service = Absent
    THEN [self |-> self, invocations |-> <<>>,
          outcome |-> Raise("AttributeError")]
    ELSE [self |-> IF remote.kind = "raise"
                   THEN [self EXCEPT !.service = Absent] ELSE self,
          invocations |-> << [service |-> self.service, op |-> op,
                              args |-> << arg >>] >>,
          outcome |-> remote]

\* self.<service>.<op>(arg): without the handle the attribute lookup
\* raises and nothing is sent; with it, one invocation, ending as the
\* remote side decides.
Invoke(self, op, arg, remote) ==
    IF self.service = Absent
    THEN [self |-> self, invocations |-> <<>>,
          outcome |-> Raise("AttributeError")]
    ELSE [self |-> self,
          invocations |-> << [service |-> self.service, op |-> op,
                              args |-> << arg >>] >>,
          outcome |-> remote]

set_application_info(self, name, version, description, remote) ==
    LET application_info ==
            << << KeyName, name >>, << KeyVersion, version >>,
               << KeyDescription, description >> >>
        application_info_json == dumps(application_info)
    IN  Caught(Invoke(self, "SetApplicationInfo", application_info_json,
                      remote))

\* set_status with its two values exchanged.
set_status_swapped(self, level, message, remote) ==
    Caught(Invoke(self, "SetApplicationStatus",
                  dumps(<< << KeyLevel, message >>, << KeyMessage, level >> >>),
                  remote))

set_status(self, level, message, remote) ==
    LET status      == << << KeyLevel, level >>, << KeyMessage, message >> >>
        status_json == dumps(status)
    IN  Caught(Invoke(self, "SetApplicationStatus", status_json, remote))

\* send_message without its try/except.
send_message_unguarded(self, message, remote) ==
    Invoke(self, "SendMessage", dumps(<< << KeyMessage, message >> >>), remote)

\* send_message passing the payload itself, not the encoded dictionary.
send_message_bare(self, message, remote) ==
    Caught(Invoke(self, "SendMessage", message, remote))

send_message(self, message, remote) ==
    LET messaged      == << << KeyMessage, message >> >>
        messaged_json == dumps(messaged)
    IN  Caught(Invoke(self, "SendMessage", messaged_json, remote))

-----------------------------------------------------------------------------
(* An application using the SDK: any constructions and calls, in any order *)

NoOperation ==
    [cls |-> "none", method |-> "none", args |-> <<>>, self |-> NoInstance,
     reach |-> NoReach, remote |-> NoRemote, invocations |-> <<>>,
     outcome |-> Return(None)]

\* The last call had the method and the arguments of the operation before
\* it ("repeat"), which had moreover failed remotely ("repeat after
\* failure"), or not ("other").
Repeats(method, args) ==
    IF last.method = method /\ last.args = args
    THEN IF last.remote.kind = "raise" THEN "repeat after failure"
         ELSE "repeat"
    ELSE "other"

\* The record of a construction.
Constructed(cls, busUp, svcUp, r) ==
    [cls |-> cls, method |-> "__init__", args |-> <<>>, self |-> NoInstance,
     reach |-> [bus |-> busUp, service |-> busUp /\ svcUp, asked |-> TRUE],
     remote |-> NoRemote, invocations |-> <<>>, outcome |-> r.outcome]

\* The record of a method call; the remote side's answer is part of it only
\* when it was asked.
Called(cls, method, args, remote, r) ==
    [cls |-> cls, method |-> method, args |-> args, self |-> inst[cls],
     reach |-> NoReach,
     remote |-> IF r.invocations = <<>> THEN NoRemote ELSE remote,
     invocations |-> r.invocations, outcome |-> r.outcome]

\* cls(): the instance exists unless __init__ raised.
Construct(cls, busUp, svcUp) ==
    LET r == __init__(cls, busUp, svcUp) IN
    /\ inst' = [inst EXCEPT
                  ![cls] = IF r.outcome.kind = "raise" THEN NoInstance
                           ELSE r.self]
    /\ last' = Constructed(cls, busUp, svcUp, r)
    /\ prev' = "other"

\* obj.method(args), with the result r the method's code gives.
Call(cls, method, args, remote, r) ==
    /\ inst' = [inst EXCEPT ![cls] = r.self]
    /\ last' = Called(cls, method, args, remote, r)
    /\ prev' = Repeats(method, args)

\* The strings a call's arguments are drawn from.
Fields == { <<>>, text }

New(cls) ==
    /\ ~inst[cls].constructed
    /\ \E busUp, svcUp \in BOOLEAN : Construct(cls, busUp, svcUp)
    /\ UNCHANGED << text, pc, trace >>

SetApplicationInfo ==
    /\ inst["Edgeberry"].constructed
    /\ \E name, version, description \in Fields, remote \in Remote :
          Call("Edgeberry", "set_application_info",
               << name, version, description >>, remote,
               set_application_info(inst["Edgeberry"], name, version,
                                    description, remote))
    /\ UNCHANGED << text, pc, trace >>

SetStatus ==
    /\ inst["Edgeberry"].constructed
    /\ \E level, message \in Fields, remote \in Remote :
          Call("Edgeberry", "set_status", << level, message >>, remote,
               set_status(inst["Edgeberry"], level, message, remote))
    /\ UNCHANGED << text, pc, trace >>

SendMessage ==
    /\ inst["EdgeberryCloudConnect"].constructed
    /\ \E message \in Fields, remote \in Remote :
          Call("EdgeberryCloudConnect", "send_message", << message >>, remote,
               send_message(inst["EdgeberryCloudConnect"], message, remote))
    /\ UNCHANGED << text, pc, trace >>

Init ==
    /\ text \in Strings
    /\ inst = [cls \in Classes |-> NoInstance]
    /\ last = NoOperation
    /\ prev = "other"
    /\ pc = "app"
    /\ trace = <<>>

Next ==
    \/ \E cls \in Classes : New(cls)
    \/ SetApplicationInfo
    \/ SetStatus
    \/ SendMessage

Spec == Init /\ [][Next]_vars

-----------------------------------------------------------------------------
(* example.py: main(), line by line *)

\* Where main() continues after a statement: nowhere, if it raised.
After(next) == IF last'.outcome.kind = "raise" THEN "raised" ELSE next

Main5 ==
    /\ pc = "line 5"
    /\ \E busUp, svcUp \in BOOLEAN : Construct("Edgeberry", busUp, svcUp)
    /\ pc' = After("line 6")
    /\ trace' = Append(trace, last')
    /\ UNCHANGED text

Main6 ==
    /\ pc = "line 6"
    /\ \E remote \in Remote :
          Call("Edgeberry", "set_application_info",
               << ExampleName, ExampleVersion, ExampleDescription >>, remote,
               set_application_info(inst["Edgeberry"], ExampleName,
                                    ExampleVersion, ExampleDescription, remote))
    /\ pc' = After("line 7")
    /\ trace' = Append(trace, last')
    /\ UNCHANGED text

Main7 ==
    /\ pc = "line 7"
    /\ \E remote \in Remote :
          Call("Edgeberry", "set_status",
               << ExampleLevel, ExampleStatusMessage >>, remote,
               set_status(inst["Edgeberry"], ExampleLevel,
                          ExampleStatusMessage, remote))
    /\ pc' = After("line 9")
    /\ trace' = Append(trace, last')
    /\ UNCHANGED text

Main9 ==
    /\ pc = "line 9"
    /\ \E busUp, svcUp \in BOOLEAN :
          Construct("EdgeberryCloudConnect", busUp, svcUp)
    /\ pc' = After("line 10")
    /\ trace' = Append(trace, last')
    /\ UNCHANGED text

Main10 ==
    /\ pc = "line 10"
    /\ \E remote \in Remote :
          Call("EdgeberryCloudConnect", "send_message",
               << ExampleCloudMessage >>, remote,
               send_message(inst["EdgeberryCloudConnect"],
                            ExampleCloudMessage, remote))
    /\ pc' = After("done")
    /\ trace' = Append(trace, last')
    /\ UNCHANGED text

MainInit ==
    /\ text = <<>>
    /\ inst = [cls \in Classes |-> NoInstance]
    /\ last = NoOperation
    /\ prev = "other"
    /\ pc = "line 5"
    /\ trace = <<>>

main == Main5 \/ Main6 \/ Main7 \/ Main9 \/ Main10

MainSpec == MainInit /\ [][main]_vars

-----------------------------------------------------------------------------
(* Properties *)

\* The last operation was a call of method m that reached the remote side.
Invoked(m) == last.method = m /\ last.invocations /= <<>>

\* The last operation was a call on an instance holding its service handle.
Connected == last.method \in Methods /\ last.self.service /= Absent

C2_SetStatusOnce ==
    (last.method = "set_status" /\ Connected) =>
        /\ Len(last.invocations) = 1
        /\ \A i \in 1..Len(last.invocations) :
              last.invocations[i].op = "SetApplicationStatus"
        /\ Len(last.invocations[1].args) = 1
        /\ EncodesObject(last.invocations[1].args[1],
                         << << KeyLevel, last.args[1] >>,
                            << KeyMessage, last.args[2] >> >>)

\* A level holding a backslash, with an empty message.
C2_Witness ==
    /\ last.method = "set_status" /\ Connected
    /\ \E i \in 1..Len(last.args[1]) : last.args[1][i] = "\\"
    /\ last.args[2] = <<>>

C4_NoExceptionEscapes ==
    last.method \in Methods =>
        /\ last.outcome.kind = "return"
        /\ last.remote.kind = "return" => last.outcome.value = last.remote.value
        /\ last.remote.kind /= "return" => last.outcome.value = None
        /\ last.remote \in { Raise("GLib.Error"), Return(None) }
              => last.outcome = Return(None)

\* A call whose remote invocation raised.
C4_Witness == last.method \in Methods /\ last.remote.kind = "raise"

\* C5: when the bus or the service is unreachable at construction, the
\* construction fails, or it leaves an instance without service handle; a
\* call on such an instance returns None, raises nothing, invokes nothing,
\* and leaves the instance as it was, so that this holds of every later
\* call too.
C5_UnreachableThenNone ==
    /\ (last.method = "__init__" /\ ~last.reach.service) =>
          \/ last.outcome.kind = "raise"
          \/ inst[last.cls].constructed /\ inst[last.cls].service = Absent
    /\ (last.method \in Methods /\ last.self.service = Absent) =>
          /\ last.outcome = Return(None)
          /\ last.invocations = <<>>
          /\ inst[last.cls] = last.self

\* A repeated call on an instance that reached the bus, not the service.
C5_Witness ==
    /\ last.method \in Methods
    /\ last.self.bus /= Absent /\ last.self.service = Absent
    /\ prev = "repeat"

\* C6: a construction with the bus or the service unreachable fails with a
\* ConnectionError, and no instance results.
C6_ConstructionFails ==
    (last.method = "__init__" /\ ~last.reach.service) =>
        /\ last.outcome = Raise("ConnectionError")
        /\ ~inst[last.cls].constructed

-----------------------------------------------------------------------------
(* The texts of the example's three invocations *)

\* {"name":"example","version":"v3.2.1","description":"Edgeberry application example"}
CompactInfoText ==
    << "{", "\"", "n", "a", "m", "e", "\"", ":", "\"", "e", "x", "a", "m",
       "p", "l", "e", "\"", ",", "\"", "v", "e", "r", "s", "i", "o", "n",
       "\"", ":", "\"", "v", "3", ".", "2", ".", "1", "\"", ",", "\"", "d",
       "e", "s", "c", "r", "i", "p", "t", "i", "o", "n", "\"", ":", "\"",
       "E", "d", "g", "e", "b", "e", "r", "r", "y", " ", "a", "p", "p",
       "l", "i", "c", "a", "t", "i", "o", "n", " ", "e", "x", "a", "m",
       "p", "l", "e", "\"", "}" >>

\* {"name": "example", "version": "v3.2.1", "description": "Edgeberry application example"}
SpacedInfoText ==
    << "{", "\"", "n", "a", "m", "e", "\"", ":", " ", "\"", "e", "x", "a",
       "m", "p", "l", "e", "\"", ",", " ", "\"", "v", "e", "r", "s", "i",
       "o", "n", "\"", ":", " ", "\"", "v", "3", ".", "2", ".", "1", "\"",
       ",", " ", "\"", "d", "e", "s", "c", "r", "i", "p", "t", "i", "o",
       "n", "\"", ":", " ", "\"", "E", "d", "g", "e", "b", "e", "r", "r",
       "y", " ", "a", "p", "p", "l", "i", "c", "a", "t", "i", "o", "n",
       " ", "e", "x", "a", "m", "p", "l", "e", "\"", "}" >>

\* {"level":"ok","message":"blub"}
CompactStatusText ==
    << "{", "\"", "l", "e", "v", "e", "l", "\"", ":", "\"", "o", "k", "\"",
       ",", "\"", "m", "e", "s", "s", "a", "g", "e", "\"", ":", "\"", "b",
       "l", "u", "b", "\"", "}" >>

\* {"level": "ok", "message": "blub"}
SpacedStatusText ==
    << "{", "\"", "l", "e", "v", "e", "l", "\"", ":", " ", "\"", "o", "k",
       "\"", ",", " ", "\"", "m", "e", "s", "s", "a", "g", "e", "\"", ":",
       " ", "\"", "b", "l", "u", "b", "\"", "}" >>

\* {"message":"test message"}
CompactMessageText ==
    << "{", "\"", "m", "e", "s", "s", "a", "g", "e", "\"", ":", "\"", "t",
       "e", "s", "t", " ", "m", "e", "s", "s", "a", "g", "e", "\"", "}" >>

\* {"message": "test message"}
SpacedMessageText ==
    << "{", "\"", "m", "e", "s", "s", "a", "g", "e", "\"", ":", " ", "\"",
       "t", "e", "s", "t", " ", "m", "e", "s", "s", "a", "g", "e", "\"",
       "}" >>

\* Every invocation main() has made passed the text given for its method.
MainPassed(info, status, message) ==
    \A i \in 1..Len(trace) :
        \A j \in 1..Len(trace[i].invocations) :
            trace[i].invocations[j].args =
                << CASE trace[i].method = "set_application_info" -> info
                     [] trace[i].method = "set_status" -> status
                     [] OTHER -> message >>

\* C7: the example's calls pass exactly the compact JSON texts, keys in the
\* order listed and no whitespace between tokens.
C7_CompactTexts ==
    MainPassed(CompactInfoText, CompactStatusText, CompactMessageText)

\* C7, amended: the example's calls pass exactly the JSON texts with the
\* keys in the order listed, one space after each colon and after each
\* comma between members, and no other whitespace between tokens.
C7_SpacedTexts ==
    MainPassed(SpacedInfoText, SpacedStatusText, SpacedMessageText)

\* main() is done and each of its three calls was sent.
C7_Witness ==
    /\ pc = "done"
    /\ \A i \in { 2, 3, 5 } : Len(trace[i].invocations) = 1

\* C8: reading back the text a call hands to the remote operation gives,
\* member by member, the call's arguments unchanged, quotes and
\* backslashes included.
C8_RoundTrip ==
    (last.method \in Methods /\ last.invocations /= <<>>) =>
        LET r == loads(last.invocations[1].args[1]) IN
        /\ r.ok
        /\ Len(r.members) = Len(last.args)
        /\ \A i \in 1..Len(last.args) : r.members[i][2] = last.args[i]

\* A sent argument holding a quote and a backslash.
C8_Witness ==
    /\ last.method \in Methods /\ last.invocations /= <<>>
    /\ \E i, j \in 1..Len(last.args[1]) :
          last.args[1][i] = "\"" /\ last.args[1][j] = "\\"

\* C9: a call leaves the instances as they were; on a connected instance it
\* invokes once, whatever happened before; and a call with the method and
\* arguments of the operation before it makes the same invocations.
C9_Stateless ==
    [][ last'.method \in Methods =>
          /\ inst' = inst
          /\ last'.self.service /= Absent => Len(last'.invocations) = 1
          /\ (last.method = last'.method /\ last.args = last'.args)
                => last'.invocations = last.invocations ]_vars

\* A call repeated after its remote invocation failed, and sent again.
C9_Witness == prev = "repeat after failure" /\ Len(last.invocations) = 1

\* The remote operations main() has invoked, in order.
MainOps ==
    Flatten([i \in 1..Len(trace) |->
                [j \in 1..Len(trace[i].invocations) |->
                    trace[i].invocations[j].op]])

MainOrder == << "SetApplicationInfo", "SetApplicationStatus", "SendMessage" >>

Position(op) == CHOOSE k \in 1..Len(MainOrder) : MainOrder[k] = op

\* C10: main() never raises and always has a next statement until it is
\* done; its invocations are SetApplicationInfo, SetApplicationStatus,
\* SendMessage in this order, each at most once; and whatever happened to
\* the Core component, the CloudConnect component is constructed and, if it
\* reached its service, SendMessage is invoked.
C10_MainCompletes ==
    /\ pc /= "raised"
    /\ pc = "done" \/ ENABLED main
    /\ \A i \in 1..Len(MainOps) :
          \E k \in 1..Len(MainOrder) : MainOrder[k] = MainOps[i]
    /\ \A i, j \in 1..Len(MainOps) :
          i < j => Position(MainOps[i]) < Position(MainOps[j])
    /\ pc = "done" =>
          /\ inst["EdgeberryCloudConnect"].constructed
          /\ trace[4].reach.service =>
                MainOps /= <<>> /\ MainOps[Len(MainOps)] = "SendMessage"

\* main() is done, the Core service was unreachable and SendMessage sent.
C10_Witness ==
    /\ pc = "done"
    /\ ~trace[1].reach.service
    /\ MainOps = << "SendMessage" >>

====
